---- MODULE Spec2Model ----
(***************************************************************************)
(* State-machine model of the srx-fleet-manager orchestration engine:      *)
(* the Celery tasks apply_config_commands, upgrade_device, backup_device   *)
(* and health_check_device, the jobs/devices tables they write, the git    *)
(* configuration store, the delete endpoints of the API, and the device    *)
(* side of the confirmed-commit protocol.                                  *)
(*                                                                         *)
(* Every task invocation occupies one worker slot; the slots run           *)
(* concurrently (Celery prefork pool), one step of one slot at a time.     *)
(* A step is one call on a collaborator (device, git store, oracle) or one *)
(* database commit.  Every collaborator call may raise: the environment    *)
(* chooses the outcome.                                                    *)
(***************************************************************************)
EXTENDS Integers, Sequences, FiniteSets, TLC

----------------------------------------------------------------------------
(* Bounds and program constants *)

\* number of worker slots, i.e. of task invocations that can overlap
MaxWorkers == 2

\* upgrade.py: max_retries = 12
max_retries == 12

\* config_change.py: commit_confirmed_timeout default (minutes)
commit_confirmed_timeout == 5

Workers == 1..MaxWorkers

\* The fleet: one managed device (database id 1).
Devices == {1}

\* Configuration statements ("set ..." lines).  A configuration is a set of them.
Stmts == {"a", "b"}

\* Command batches a change job may be given (the API rejects an empty list).
Batches == {{"a"}, {"b"}}

\* The configuration every device starts with.
InitialConfig == {"a"}

\* Firmware versions a device can report.
Versions == {"v1", "v2"}

VARIABLES
    rows,       \* devices table: the ids present
    devinfo,    \* devices table: recorded facts per device id
    jobs,       \* jobs table: record per invocation, or NoJob
    backups,    \* config_backups table: set of records
    repo,       \* git store: the files of the working tree and the commits made
    junos,      \* the devices themselves: active/candidate configuration, rollback timer
    inv         \* the task invocations: program counter and locals per worker slot

vars == <<rows, devinfo, jobs, backups, repo, junos, inv>>

----------------------------------------------------------------------------
(* Values *)

NoJob == [job_type |-> "none"]
NoResult == [kind |-> "none"]
NoToken == [file_path |-> 0, commit_sha |-> <<0, "none">>]
None == "None"

\* models/job.py: the documented status values
DocumentedStatuses == {"pending", "running", "success", "failed", "cancelled"}
TerminalStatuses == {"success", "failed", "cancelled"}

\* pc values at which an invocation has left the task function
Exited == {"done", "raised", "killed"}

IdleInv ==
    [pc |-> "idle", task |-> "none", device |-> 0, cmds |-> {}, diff |-> {},
     pre |-> NoToken, post |-> NoToken, session |-> FALSE, calls |-> <<>>,
     exc |-> None, attempt |-> 0, verdict |-> None, new_version |-> None,
     recommendation |-> None, before |-> {}, soft |-> FALSE,
     pass_error |-> None, analysis |-> None,
     config_text |-> {}, token |-> NoToken, read |-> {}]

\* Job(...) as constructed by the tasks: status='running', started_at=utcnow()
NewJob(type, d) ==
    [job_type |-> type, device_id |-> d, status |-> "running",
     started_at |-> TRUE, finished_at |-> FALSE,
     result |-> NoResult, error |-> None]

\* A device row as imported: facts of the running firmware, never seen or
\* backed up by a job yet.  The time stamps are written as the invocation
\* that set them (0: never).
InitialInfo == [junos_version |-> "v1", last_seen_at |-> 0, last_backup_at |-> 0]

----------------------------------------------------------------------------
(* Database writes *)

\* db.commit() of a change to the job row of invocation w.  A row that was
\* deleted meanwhile is not re-created (the UPDATE matches no row).
WriteJob(w, rec) ==
    IF jobs[w] = NoJob THEN jobs ELSE [jobs EXCEPT ![w] = rec]

\* The calls an invocation has made on its collaborators, in order, each
\* with its outcome: returned, or raised.
Ok(op) == [op |-> op, raised |-> FALSE]
Ex(op) == [op |-> op, raised |-> TRUE]
Log(w, op) == Append(inv[w].calls, Ok(op))
LogEx(w, op) == Append(inv[w].calls, Ex(op))

----------------------------------------------------------------------------
(* Git store: GitService.save_config *)

\* The value save_config returns: (file_path, commit_sha).  The file is
\* region/site/hostname.conf of the device; a commit hash is unique to its
\* commit, here the invocation that made it and the label of the snapshot.
SavedToken(w, d, label) == [file_path |-> d, commit_sha |-> <<w, label>>]

\* lines 76-77: config_file.write_text(config_text)
write_text(store, d, content) == [store EXCEPT !.files[d] = content]

\* _commit_config, lines 92-117: repo.index.add([relative_path]) takes the
\* file as it is in the working tree at that moment, and repo.index.commit
\* makes the commit.
commit_config(store, w, d, label) ==
    [store EXCEPT !.commits = @ \cup {[commit_sha |-> <<w, label>>, file_path |-> d,
                                       content |-> store.files[d]]}]

\* save_config run from its first line to its last with no other save in
\* between, as the tasks above are taken to run it.
save_config(w, d, content, label) ==
    commit_config(write_text(repo, d, content), w, d, label)

\* get_config_at_commit, lines 155-183: the file of the device in the tree
\* of the commit
get_config_at_commit(store, d, commit_sha) ==
    (CHOOSE c \in store.commits : c.commit_sha = commit_sha /\ c.file_path = d).content

\* The configurations a caller may pass to save_config.
Contents == SUBSET Stmts

\* A caller of the store in worker w saves content for device d.
\* save_config, lines 69-82: the directory, the file path, write_text.
SaveWrite(w, d, content) ==
    /\ inv[w].pc = "idle"
    /\ repo' = write_text(repo, d, content)
    /\ inv' = [inv EXCEPT ![w] = [IdleInv EXCEPT
                   !.pc = "gs_commit", !.task = "save", !.device = d,
                   !.config_text = content]]
    /\ UNCHANGED <<rows, devinfo, jobs, backups, junos>>

\* save_config, lines 84-90: _commit_config (git_auto_commit is on), and
\* the token is returned.
SaveCommit(w) ==
    /\ inv[w].pc = "gs_commit"
    /\ repo' = commit_config(repo, w, inv[w].device, "save")
    /\ inv' = [inv EXCEPT ![w].pc = "gs_read",
                          ![w].token = SavedToken(w, inv[w].device, "save")]
    /\ UNCHANGED <<rows, devinfo, jobs, backups, junos>>

\* The caller reads the configuration back by the token it was given.
ReadBack(w) ==
    /\ inv[w].pc = "gs_read"
    /\ inv' = [inv EXCEPT ![w].pc = "done",
                          ![w].read = get_config_at_commit(repo, inv[w].device,
                                                           inv[w].token.commit_sha)]
    /\ UNCHANGED <<rows, devinfo, jobs, backups, repo, junos>>

StoreClient(w) ==
    \/ \E d \in Devices, content \in Contents : SaveWrite(w, d, content)
    \/ SaveCommit(w)
    \/ ReadBack(w)

----------------------------------------------------------------------------
(* The device: shared candidate database and confirmed commit *)

InitialJunos ==
    [active |-> InitialConfig, candidate |-> InitialConfig,
     armed |-> FALSE, rollback_to |-> InitialConfig]

\* dev.cu.load(config_changes, format='set'): merge into the shared candidate
load(dv, cmds) == [dv EXCEPT !.candidate = dv.candidate \cup cmds]

\* dev.cu.diff(): candidate against active; the empty set stands for None
cu_diff(dv) == (dv.candidate \ dv.active) \cup (dv.active \ dv.candidate)

\* dev.cu.commit(confirm=minutes): activate the candidate and arm the timer.
\* The configuration to fall back to is the one active before this commit.
commit_confirmed(dv) ==
    [dv EXCEPT !.active = dv.candidate, !.armed = TRUE, !.rollback_to = dv.active]

\* dev.cu.commit(): activate the candidate; a pending rollback is confirmed
commit(dv) == [dv EXCEPT !.active = dv.candidate, !.armed = FALSE]

\* The device-side timer expires: revert to the configuration before the
\* unconfirmed commit.
RollbackTimerFires(d) ==
    /\ junos[d].armed
    /\ junos' = [junos EXCEPT ![d] =
                    [active |-> junos[d].rollback_to,
                     candidate |-> junos[d].rollback_to,
                     armed |-> FALSE,
                     rollback_to |-> junos[d].rollback_to]]
    /\ UNCHANGED <<rows, devinfo, jobs, backups, repo, inv>>

----------------------------------------------------------------------------
(* apply_config_commands (worker/tasks/config_change.py) *)

\* lines 42-66: look the device up, create the job record
CCStart(w, d, cmds) ==
    /\ inv[w].pc = "idle"
    /\ IF d \in rows
       THEN /\ inv' = [inv EXCEPT ![w] = [IdleInv EXCEPT
                          !.pc = "cc_prebackup", !.task = "config_change",
                          !.device = d, !.cmds = cmds]]
            /\ jobs' = [jobs EXCEPT ![w] = NewJob("config_change", d)]
       ELSE /\ inv' = [inv EXCEPT ![w] = [IdleInv EXCEPT
                          !.pc = "raised", !.task = "config_change",
                          !.device = d, !.cmds = cmds,
                          !.exc = "DeviceNotFound"]]
            /\ UNCHANGED jobs
    /\ UNCHANGED <<rows, devinfo, backups, repo, junos>>

\* Variant of CCFailed that marks the job failed without finished_at.
CCFailedUnstamped(w, err, calls) ==
    /\ jobs' = WriteJob(w, [jobs[w] EXCEPT
                    !.status = "failed", !.error = err,
                    !.result = [kind |-> "error", success |-> FALSE, error |-> err,
                                commands |-> inv[w].cmds]])
    /\ inv' = [inv EXCEPT ![w].pc = "raised", ![w].exc = err,
                          ![w].session = FALSE, ![w].calls = calls]

\* lines 169-189: the except clause of the task body.  The with block has
\* been left, so the session is closed; the job is marked failed and the
\* exception is re-raised.  result_json (181-186) is success, error, the
\* commands that were asked for and the description.
CCFailed(w, err, calls) ==
    /\ jobs' = WriteJob(w, [jobs[w] EXCEPT
                    !.status = "failed", !.finished_at = TRUE, !.error = err,
                    !.result = [kind |-> "error", success |-> FALSE, error |-> err,
                                commands |-> inv[w].cmds]])
    /\ inv' = [inv EXCEPT ![w].pc = "raised", ![w].exc = err,
                          ![w].session = FALSE, ![w].calls = calls]

\* Variant of CCPreBackup in which a failed save of the snapshot is logged
\* and the job goes on without it.
CCPreBackupBestEffort(w) ==
    /\ inv[w].pc = "cc_prebackup"
    /\ LET d == inv[w].device IN
       \E outcome \in {"ok", "get_config_raises", "save_raises"} :
          CASE outcome = "ok" ->
                 /\ repo' = save_config(w, d, junos[d].active, "pre")
                 /\ inv' = [inv EXCEPT ![w].pc = "cc_connect",
                               ![w].pre = SavedToken(w, d, "pre"),
                               ![w].calls = Log(w, "get_config") \o <<Ok("save_config")>>]
                 /\ UNCHANGED jobs
            [] outcome = "get_config_raises" ->
                 /\ CCFailed(w, "ConfigFetchError", LogEx(w, "get_config"))
                 /\ UNCHANGED repo
            [] outcome = "save_raises" ->
                 /\ inv' = [inv EXCEPT ![w].pc = "cc_connect",
                               ![w].calls = Log(w, "get_config") \o <<Ex("save_config")>>]
                 /\ UNCHANGED <<jobs, repo>>
    /\ UNCHANGED <<rows, devinfo, backups, junos>>

\* lines 69-77: PyEZService.get_config, then GitService.save_config
CCPreBackup(w) ==
    /\ inv[w].pc = "cc_prebackup"
    /\ LET d == inv[w].device IN
       \E outcome \in {"ok", "get_config_raises", "save_raises"} :
          CASE outcome = "ok" ->
                 /\ repo' = save_config(w, d, junos[d].active, "pre")
                 /\ inv' = [inv EXCEPT ![w].pc = "cc_connect",
                               ![w].pre = SavedToken(w, d, "pre"),
                               ![w].calls = Log(w, "get_config") \o <<Ok("save_config")>>]
                 /\ UNCHANGED jobs
            [] outcome = "get_config_raises" ->
                 /\ CCFailed(w, "ConfigFetchError", LogEx(w, "get_config"))
                 /\ UNCHANGED repo
            [] outcome = "save_raises" ->
                 /\ CCFailed(w, "GitError", Log(w, "get_config") \o <<Ex("save_config")>>)
                 /\ UNCHANGED repo
    /\ UNCHANGED <<rows, devinfo, backups, junos>>

\* line 81: with PyEZService.connect(device) as dev
CCConnect(w) ==
    /\ inv[w].pc = "cc_connect"
    /\ \E ok \in BOOLEAN :
          IF ok
          THEN /\ inv' = [inv EXCEPT ![w].pc = "cc_load", ![w].session = TRUE,
                             ![w].calls = Log(w, "open")]
               /\ UNCHANGED jobs
          ELSE CCFailed(w, "ConnectError", LogEx(w, "open"))
    /\ UNCHANGED <<rows, devinfo, backups, repo, junos>>

\* Variant of CCLoad that tries a rejected load a second time before it
\* gives up.
CCLoadRetried(w) ==
    /\ inv[w].pc = "cc_load"
    /\ LET d == inv[w].device IN
       \E ok \in BOOLEAN, kept \in SUBSET inv[w].cmds :
          IF ok
          THEN /\ junos' = [junos EXCEPT ![d] = load(junos[d], inv[w].cmds)]
               /\ inv' = [inv EXCEPT ![w].pc = "cc_diff", ![w].calls = Log(w, "load")]
               /\ UNCHANGED jobs
          ELSE IF \A i \in DOMAIN inv[w].calls : inv[w].calls[i].op # "load"
          THEN /\ junos' = [junos EXCEPT ![d] = load(junos[d], kept)]
               /\ inv' = [inv EXCEPT ![w].calls = LogEx(w, "load")]
               /\ UNCHANGED jobs
          ELSE /\ CCFailed(w, "LoadError", LogEx(w, "load"))
               /\ junos' = [junos EXCEPT ![d] = load(junos[d], kept)]
    /\ UNCHANGED <<rows, devinfo, backups, repo>>

\* line 93: dev.cu.load(config_changes, format='set').  When the device
\* rejects a line of the batch, load raises; the statements the device
\* accepted (kept) stay in the candidate, and nothing in the task discards
\* them: the except clause (169-189) makes no call on the device.
CCLoad(w) ==
    /\ inv[w].pc = "cc_load"
    /\ LET d == inv[w].device IN
       \E ok \in BOOLEAN, kept \in SUBSET inv[w].cmds :
          IF ok
          THEN /\ junos' = [junos EXCEPT ![d] = load(junos[d], inv[w].cmds)]
               /\ inv' = [inv EXCEPT ![w].pc = "cc_diff", ![w].calls = Log(w, "load")]
               /\ UNCHANGED jobs
          ELSE /\ CCFailed(w, "LoadError", LogEx(w, "load"))
               /\ junos' = [junos EXCEPT ![d] = load(junos[d], kept)]
    /\ UNCHANGED <<rows, devinfo, backups, repo>>

\* Variant of CCDiff without the test of the diff: the job goes on to
\* commit whatever the diff is.
CCDiffAlwaysCommits(w) ==
    /\ inv[w].pc = "cc_diff"
    /\ LET d == inv[w].device IN
       \E ok \in BOOLEAN :
          IF ~ok
          THEN CCFailed(w, "RpcError", LogEx(w, "diff"))
          ELSE /\ inv' = [inv EXCEPT ![w].pc = "cc_commit",
                             ![w].diff = cu_diff(junos[d]),
                             ![w].calls = Log(w, "diff")]
               /\ UNCHANGED jobs
    /\ UNCHANGED <<rows, devinfo, backups, repo, junos>>

\* lines 96-109: dev.cu.diff(); an empty diff ends the job as 'completed'
\* with "No changes detected", committed while the session is still open
CCDiff(w) ==
    /\ inv[w].pc = "cc_diff"
    /\ LET d == inv[w].device IN
       \E ok \in BOOLEAN :
          IF ~ok
          THEN CCFailed(w, "RpcError", LogEx(w, "diff"))
          ELSE IF cu_diff(junos[d]) # {}
          THEN /\ inv' = [inv EXCEPT ![w].pc = "cc_commit",
                             ![w].diff = cu_diff(junos[d]),
                             ![w].calls = Log(w, "diff")]
               /\ UNCHANGED jobs
          ELSE /\ jobs' = WriteJob(w, [jobs[w] EXCEPT
                             !.status = "completed", !.finished_at = TRUE,
                             !.result = [kind |-> "no_changes", success |-> TRUE,
                                         message |-> "No changes detected"]])
               /\ inv' = [inv EXCEPT ![w].pc = "cc_return_nodiff",
                             ![w].calls = Log(w, "diff")]
    /\ UNCHANGED <<rows, devinfo, backups, repo, junos>>

\* Variant of CCReturnNoDiff in which an error of dev.close() is not
\* swallowed by connect() but reaches the except clause of the task.
CCReturnNoDiffCloseRaises(w) ==
    /\ inv[w].pc = "cc_return_nodiff"
    /\ \E ok \in BOOLEAN :
          IF ok
          THEN /\ inv' = [inv EXCEPT ![w].pc = "done", ![w].session = FALSE,
                             ![w].calls = Log(w, "close")]
               /\ UNCHANGED jobs
          ELSE CCFailed(w, "CloseError", LogEx(w, "close"))
    /\ UNCHANGED <<rows, devinfo, backups, repo, junos>>

\* line 109: return job.result_json leaves the with block: dev.close()
CCReturnNoDiff(w) ==
    /\ inv[w].pc = "cc_return_nodiff"
    /\ inv' = [inv EXCEPT ![w].pc = "done", ![w].session = FALSE,
                  ![w].calls = Log(w, "close")]
    /\ UNCHANGED <<rows, devinfo, jobs, backups, repo, junos>>

\* line 117: dev.cu.commit(comment=description, confirm=commit_confirmed_timeout)
CCCommitConfirmed(w) ==
    /\ inv[w].pc = "cc_commit"
    /\ LET d == inv[w].device IN
       \E ok \in BOOLEAN :
          IF ok
          THEN /\ junos' = [junos EXCEPT ![d] = commit_confirmed(junos[d])]
               /\ inv' = [inv EXCEPT ![w].pc = "cc_probe",
                             ![w].before = junos[d].active,
                             ![w].calls = Log(w, "commit_confirmed")]
               /\ UNCHANGED jobs
          ELSE /\ CCFailed(w, "CommitError", LogEx(w, "commit_confirmed"))
               /\ UNCHANGED junos
    /\ UNCHANGED <<rows, devinfo, backups, repo>>

\* line 136: raise Exception(f"Device connectivity lost after change:
\* {str(verify_error)}"): a new exception, whatever the probe or the
\* confirming commit raised
ConnectivityLost(verify_error) == "ConnectivityLost"

\* Variant of CCProbe in which a failure of the probe is logged and
\* swallowed, so the job goes on to the confirming commit.
CCProbeSwallowed(w) ==
    /\ inv[w].pc = "cc_probe"
    /\ \E ok \in BOOLEAN :
          inv' = [inv EXCEPT ![w].pc = "cc_confirm",
                     ![w].calls = IF ok THEN Log(w, "facts") ELSE LogEx(w, "facts")]
    /\ UNCHANGED <<rows, devinfo, jobs, backups, repo, junos>>

\* lines 122-124 and 130-136: facts = dev.facts; a failure is re-raised as
\* "Device connectivity lost after change"
CCProbe(w) ==
    /\ inv[w].pc = "cc_probe"
    /\ \E ok \in BOOLEAN :
          IF ok
          THEN /\ inv' = [inv EXCEPT ![w].pc = "cc_confirm",
                             ![w].calls = Log(w, "facts")]
               /\ UNCHANGED jobs
          ELSE CCFailed(w, ConnectivityLost("FactsError"), LogEx(w, "facts"))
    /\ UNCHANGED <<rows, devinfo, backups, repo, junos>>

\* lines 128 and 130-136: the confirming commit, in the same try block as
\* the probe; then the with block is left: dev.close()
CCConfirm(w) ==
    /\ inv[w].pc = "cc_confirm"
    /\ LET d == inv[w].device IN
       \E ok \in BOOLEAN :
          IF ok
          THEN /\ junos' = [junos EXCEPT ![d] = commit(junos[d])]
               /\ inv' = [inv EXCEPT ![w].pc = "cc_postbackup",
                             ![w].session = FALSE,
                             ![w].calls = Log(w, "confirm") \o <<Ok("close")>>]
               /\ UNCHANGED jobs
          ELSE /\ CCFailed(w, ConnectivityLost("CommitError"), LogEx(w, "confirm"))
               /\ UNCHANGED junos
    /\ UNCHANGED <<rows, devinfo, backups, repo>>

\* Variant of CCPostBackup in which a failed save of the snapshot is logged
\* and the job goes on to be marked applied without it.
CCPostBackupBestEffort(w) ==
    /\ inv[w].pc = "cc_postbackup"
    /\ LET d == inv[w].device IN
       \E outcome \in {"ok", "get_config_raises", "save_raises"} :
          CASE outcome = "ok" ->
                 /\ repo' = save_config(w, d, junos[d].active, "post")
                 /\ inv' = [inv EXCEPT ![w].pc = "cc_finish",
                               ![w].post = SavedToken(w, d, "post"),
                               ![w].calls = Log(w, "get_config") \o <<Ok("save_config")>>]
                 /\ UNCHANGED jobs
            [] outcome = "get_config_raises" ->
                 /\ CCFailed(w, "ConfigFetchError", LogEx(w, "get_config"))
                 /\ UNCHANGED repo
            [] outcome = "save_raises" ->
                 /\ inv' = [inv EXCEPT ![w].pc = "cc_finish",
                               ![w].calls = Log(w, "get_config") \o <<Ex("save_config")>>]
                 /\ UNCHANGED <<jobs, repo>>
    /\ UNCHANGED <<rows, devinfo, backups, junos>>

\* lines 138-145: the post-change snapshot
CCPostBackup(w) ==
    /\ inv[w].pc = "cc_postbackup"
    /\ LET d == inv[w].device IN
       \E outcome \in {"ok", "get_config_raises", "save_raises"} :
          CASE outcome = "ok" ->
                 /\ repo' = save_config(w, d, junos[d].active, "post")
                 /\ inv' = [inv EXCEPT ![w].pc = "cc_finish",
                               ![w].post = SavedToken(w, d, "post"),
                               ![w].calls = Log(w, "get_config") \o <<Ok("save_config")>>]
                 /\ UNCHANGED jobs
            [] outcome = "get_config_raises" ->
                 /\ CCFailed(w, "ConfigFetchError", LogEx(w, "get_config"))
                 /\ UNCHANGED repo
            [] outcome = "save_raises" ->
                 /\ CCFailed(w, "GitError", Log(w, "get_config") \o <<Ex("save_config")>>)
                 /\ UNCHANGED repo
    /\ UNCHANGED <<rows, devinfo, backups, junos>>

\* Variant of CCFinish that stores the pre-change token in both places.
CCFinishOneToken(w) ==
    /\ inv[w].pc = "cc_finish"
    /\ jobs' = WriteJob(w, [jobs[w] EXCEPT
                    !.status = "completed", !.finished_at = TRUE,
                    !.result = [kind |-> "applied", success |-> TRUE,
                                diff |-> inv[w].diff,
                                pre_commit |-> inv[w].pre,
                                post_commit |-> inv[w].pre]])
    /\ inv' = [inv EXCEPT ![w].pc = "done"]
    /\ UNCHANGED <<rows, devinfo, backups, repo, junos>>

\* lines 147-167: the job is marked 'completed' with the diff and both tokens
CCFinish(w) ==
    /\ inv[w].pc = "cc_finish"
    /\ jobs' = WriteJob(w, [jobs[w] EXCEPT
                    !.status = "completed", !.finished_at = TRUE,
                    !.result = [kind |-> "applied", success |-> TRUE,
                                diff |-> inv[w].diff,
                                pre_commit |-> inv[w].pre,
                                post_commit |-> inv[w].post]])
    /\ inv' = [inv EXCEPT ![w].pc = "done"]
    /\ UNCHANGED <<rows, devinfo, backups, repo, junos>>

ConfigChange(w) ==
    \/ \E d \in Devices, cmds \in Batches : CCStart(w, d, cmds)
    \/ CCPreBackup(w)
    \/ CCConnect(w)
    \/ CCLoad(w)
    \/ CCDiff(w)
    \/ CCReturnNoDiff(w)
    \/ CCCommitConfirmed(w)
    \/ CCProbe(w)
    \/ CCConfirm(w)
    \/ CCPostBackup(w)
    \/ CCFinish(w)

----------------------------------------------------------------------------
(* upgrade_device (worker/tasks/upgrade.py) *)

\* lines 36-48: the job record is created before the device is looked up.
\* Job.device_id is a foreign key (models/job.py, line 19): for an id
\* without a row the insert is refused by a database that enforces the
\* key, and goes through on one that does not.
UStart(w, d) ==
    /\ inv[w].pc = "idle"
    /\ \E enforced \in BOOLEAN :
          IF d \in rows \/ ~enforced
          THEN /\ inv' = [inv EXCEPT ![w] = [IdleInv EXCEPT
                             !.pc = "up_prepare", !.task = "upgrade", !.device = d]]
               /\ jobs' = [jobs EXCEPT ![w] = NewJob("upgrade", d)]
          ELSE /\ inv' = [inv EXCEPT ![w] = [IdleInv EXCEPT
                             !.pc = "raised", !.task = "upgrade", !.device = d,
                             !.exc = "IntegrityError"]]
               /\ UNCHANGED jobs
    /\ UNCHANGED <<rows, devinfo, backups, repo, junos>>

\* Variant of UFailed that returns after marking the job failed instead
\* of re-raising (as the except clauses of backup and health check do).
UFailedReturns(w, err, calls) ==
    /\ jobs' = WriteJob(w, [jobs[w] EXCEPT
                    !.status = "failed", !.finished_at = TRUE, !.error = err])
    /\ inv' = [inv EXCEPT ![w].pc = "done", ![w].calls = calls, ![w].attempt = 0]

\* lines 254-266: the except clause of the task.  The job is marked failed
\* (result_json is left alone) and the exception is re-raised.  Nothing
\* closes the device session.  (The loop variable of the reconnection loop
\* is kept only where the loop itself gives up.)
UFailed(w, err, calls) ==
    /\ jobs' = WriteJob(w, [jobs[w] EXCEPT
                    !.status = "failed", !.finished_at = TRUE, !.error = err])
    /\ inv' = [inv EXCEPT ![w].pc = "raised", ![w].exc = err, ![w].calls = calls,
                          ![w].attempt = 0]

\* lines 55-70: the device row, find_firmware_file, then the services.
\* PyEZService(device) opens the session of this job.
UPrepare(w) ==
    /\ inv[w].pc = "up_prepare"
    /\ \E outcome \in {"ok", "no_firmware", "connect_raises"} :
          IF inv[w].device \notin rows
          THEN UFailed(w, "DeviceNotFound", inv[w].calls)
          ELSE CASE outcome = "ok" ->
                      /\ inv' = [inv EXCEPT ![w].pc = "up_health",
                                    ![w].session = TRUE,
                                    ![w].calls = Log(w, "open")]
                      /\ UNCHANGED jobs
                 [] outcome = "no_firmware" ->
                      UFailed(w, "FirmwareNotFound", inv[w].calls)
                 [] outcome = "connect_raises" ->
                      UFailed(w, "ConnectError", LogEx(w, "open"))
    /\ UNCHANGED <<rows, devinfo, backups, repo, junos>>

\* line 74: srx_service.health_check()
UHealth(w) ==
    /\ inv[w].pc = "up_health"
    /\ \E ok \in BOOLEAN :
          IF ok
          THEN /\ inv' = [inv EXCEPT ![w].pc = "up_readiness",
                             ![w].calls = Log(w, "health_check")]
               /\ UNCHANGED jobs
          ELSE UFailed(w, "HealthError", LogEx(w, "health_check"))
    /\ UNCHANGED <<rows, devinfo, backups, repo, junos>>

\* Variant of ReadinessPasses that tests only that the oracle answered
\* (readiness['success']) and not the verdict (analysis['ready']).
ReadinessAnswered(answer) == answer # "unavailable"

\* lines 88-93: the gate on the answer of the readiness oracle
ReadinessPasses(answer) == answer = "ready"

\* lines 82-97: ai_service.analyze_upgrade_readiness.  The oracle is
\* unavailable (success false), or answers ready, not ready, or without a
\* verdict.
UReadiness(w) ==
    /\ inv[w].pc = "up_readiness"
    /\ \E answer \in {"unavailable", "ready", "not_ready", "no_verdict"} :
          IF ReadinessPasses(answer)
          THEN /\ inv' = [inv EXCEPT ![w].pc = "up_plan", ![w].verdict = answer,
                             ![w].calls = Log(w, "assess_readiness")]
               /\ UNCHANGED jobs
          ELSE /\ jobs' = WriteJob(w, [jobs[w] EXCEPT
                             !.status = "failed", !.finished_at = TRUE,
                             !.error = IF answer = "unavailable"
                                       THEN "ReadinessFailed" ELSE "NotReady"])
               /\ inv' = [inv EXCEPT ![w].pc = "raised", ![w].verdict = answer,
                             ![w].exc = IF answer = "unavailable"
                                        THEN "ReadinessFailed" ELSE "NotReady",
                             ![w].calls = Log(w, "assess_readiness")]
    /\ UNCHANGED <<rows, devinfo, backups, repo, junos>>

\* lines 101-111: ai_service.generate_upgrade_plan
UPlan(w) ==
    /\ inv[w].pc = "up_plan"
    /\ \E ok \in BOOLEAN :
          IF ok
          THEN /\ inv' = [inv EXCEPT ![w].pc = "up_prebackup",
                             ![w].calls = Log(w, "generate_plan")]
               /\ UNCHANGED jobs
          ELSE UFailed(w, "PlanFailed", LogEx(w, "generate_plan"))
    /\ UNCHANGED <<rows, devinfo, backups, repo, junos>>

\* lines 115-120: srx_service.get_configuration, git_service.commit_config
UPreBackup(w) ==
    /\ inv[w].pc = "up_prebackup"
    /\ LET d == inv[w].device IN
       \E outcome \in {"ok", "get_config_raises", "save_raises"} :
          CASE outcome = "ok" ->
                 /\ repo' = save_config(w, d, junos[d].active, "pre")
                 /\ inv' = [inv EXCEPT ![w].pc = "up_snapshot",
                               ![w].pre = SavedToken(w, d, "pre"),
                               ![w].calls = Log(w, "get_config") \o <<Ok("save_config")>>]
                 /\ UNCHANGED jobs
            [] outcome = "get_config_raises" ->
                 /\ UFailed(w, "ConfigFetchError", LogEx(w, "get_config"))
                 /\ UNCHANGED repo
            [] outcome = "save_raises" ->
                 /\ UFailed(w, "GitError", Log(w, "get_config") \o <<Ex("save_config")>>)
                 /\ UNCHANGED repo
    /\ UNCHANGED <<rows, devinfo, backups, junos>>

\* One device instruction of the upgrade: it succeeds and the task goes on,
\* or it raises and the task fails.
UInstruct(w, at, op, next, err) ==
    /\ inv[w].pc = at
    /\ \E ok \in BOOLEAN :
          IF ok
          THEN /\ inv' = [inv EXCEPT ![w].pc = next, ![w].calls = Log(w, op)]
               /\ UNCHANGED jobs
          ELSE UFailed(w, err, LogEx(w, op))
    /\ UNCHANGED <<rows, devinfo, backups, repo, junos>>

\* line 133: request-snapshot to the alternate slice
USnapshot(w) == UInstruct(w, "up_snapshot", "snapshot", "up_upload", "SnapshotError")

\* lines 142-143: sftp.put of the firmware image
UUpload(w) == UInstruct(w, "up_upload", "upload", "up_install", "TransferError")

\* Variant of UInstall in which a failed installation is logged and the
\* task goes on to the reboot.
UInstallUnchecked(w) ==
    /\ inv[w].pc = "up_install"
    /\ \E ok \in BOOLEAN :
          inv' = [inv EXCEPT ![w].pc = "up_reboot",
                     ![w].calls = IF ok THEN Log(w, "install") ELSE LogEx(w, "install")]
    /\ UNCHANGED <<rows, devinfo, jobs, backups, repo, junos>>

\* line 149: request-package-add
UInstall(w) == UInstruct(w, "up_install", "install", "up_reboot", "InstallError")

\* lines 159-164: request-reboot, then the five minute wait
UReboot(w) == UInstruct(w, "up_reboot", "reboot", "up_reconnect", "RebootError")

\* Variant of LastPass that is off by one: the loop gives up one pass late.
LastPassOffByOne(i) == i = max_retries

\* line 178: the pass that gives up
LastPass(i) == i = max_retries - 1

\* What a pass of the reconnection loop can raise: the device is not
\* reachable yet, or anything else (authentication, a malformed reply, a
\* programming error, the soft time limit).
PassErrors == {"unreachable", "other"}

\* lines 176-179: except Exception in the loop.  Whatever was raised in
\* the pass (e) is logged; the last pass raises "did not come back online",
\* which the except clause of the task records.  soft tells whether what
\* was raised was the soft time limit.
UPassFailed(w, e, soft) ==
    LET i == inv[w].attempt IN
    IF LastPass(i)
    THEN /\ jobs' = WriteJob(w, [jobs[w] EXCEPT
                       !.status = "failed", !.finished_at = TRUE,
                       !.error = "DidNotComeBack"])
         /\ inv' = [inv EXCEPT ![w].pc = "raised", ![w].attempt = i + 1,
                       ![w].exc = "DidNotComeBack", ![w].soft = soft,
                       ![w].pass_error = e]
    ELSE /\ inv' = [inv EXCEPT ![w].attempt = i + 1, ![w].soft = soft,
                       ![w].pass_error = e]
         /\ UNCHANGED jobs

\* Variant of UReconnect without the break: a pass that succeeds does not
\* leave the loop before the last pass.
UReconnectNoBreak(w) ==
    /\ inv[w].pc = "up_reconnect"
    /\ \E ok \in BOOLEAN, e \in PassErrors :
          IF ok
          THEN /\ inv' = [inv EXCEPT
                             ![w].pc = IF LastPass(inv[w].attempt)
                                       THEN "up_postbackup" ELSE "up_reconnect",
                             ![w].attempt = inv[w].attempt + 1,
                             ![w].session = TRUE, ![w].pass_error = None]
               /\ UNCHANGED jobs
          ELSE UPassFailed(w, e, inv[w].soft)
    /\ UNCHANGED <<rows, devinfo, backups, repo, junos>>

\* lines 169-179: one pass of the loop for i in range(max_retries):
\* PyEZService(device) and health_check().  attempt counts the passes
\* made; they are not entered in calls.
UReconnect(w) ==
    /\ inv[w].pc = "up_reconnect"
    /\ \E ok \in BOOLEAN, e \in PassErrors :
          IF ok
          THEN /\ inv' = [inv EXCEPT ![w].pc = "up_postbackup",
                             ![w].attempt = inv[w].attempt + 1,
                             ![w].session = TRUE, ![w].pass_error = None]
               /\ UNCHANGED jobs
          ELSE UPassFailed(w, e, inv[w].soft)
    /\ UNCHANGED <<rows, devinfo, backups, repo, junos>>

\* lines 183-188: the post-upgrade snapshot.  The loop variable is not
\* read again, and its value is dropped here.
UPostBackup(w) ==
    /\ inv[w].pc = "up_postbackup"
    /\ LET d == inv[w].device IN
       \E outcome \in {"ok", "get_config_raises", "save_raises"} :
          CASE outcome = "ok" ->
                 /\ repo' = save_config(w, d, junos[d].active, "post")
                 /\ inv' = [inv EXCEPT ![w].pc = "up_facts", ![w].attempt = 0,
                               ![w].post = SavedToken(w, d, "post"),
                               ![w].calls = Log(w, "get_config") \o <<Ok("save_config")>>]
                 /\ UNCHANGED jobs
            [] outcome = "get_config_raises" ->
                 /\ UFailed(w, "ConfigFetchError", LogEx(w, "get_config"))
                 /\ UNCHANGED repo
            [] outcome = "save_raises" ->
                 /\ UFailed(w, "GitError", Log(w, "get_config") \o <<Ex("save_config")>>)
                 /\ UNCHANGED repo
    /\ UNCHANGED <<rows, devinfo, backups, junos>>

\* lines 191-192: facts.get('version', 'Unknown')
UFacts(w) ==
    /\ inv[w].pc = "up_facts"
    /\ \E reported \in Versions \cup {"Unknown", "raises"} :
          IF reported # "raises"
          THEN /\ inv' = [inv EXCEPT ![w].pc = "up_analyze",
                             ![w].new_version = reported,
                             ![w].calls = Log(w, "facts")]
               /\ UNCHANGED jobs
          ELSE UFailed(w, "FactsError", LogEx(w, "facts"))
    /\ UNCHANGED <<rows, devinfo, backups, repo, junos>>

\* Variant of ai_recommendation without the test of result_analysis
\* ['success']: whatever came back is taken as the recommendation.
ai_recommendationUnchecked(answer) == answer

\* lines 212-216: an unavailable oracle gives 'investigate'; otherwise the
\* parsed answer is taken as it is
ai_recommendation(answer) ==
    IF answer = "unavailable" THEN "investigate" ELSE answer

\* What analyze_upgrade_result gives back (ai_service.py, 664-783): it is
\* unavailable (success false: not enabled, the call raised, the reply was
\* not JSON or not an object), or its answer carries one of the three
\* recommendations (proceed stands for them), another value, or none.
ResultAnswers == {"unavailable", "proceed", "other", None}

\* lines 206-220: ai_service.analyze_upgrade_result
UAnalyze(w) ==
    /\ inv[w].pc = "up_analyze"
    /\ \E answer \in ResultAnswers :
          inv' = [inv EXCEPT ![w].pc = "up_update",
                     ![w].analysis = answer,
                     ![w].recommendation = ai_recommendation(answer),
                     ![w].calls = Log(w, "assess_result")]
    /\ UNCHANGED <<rows, devinfo, jobs, backups, repo, junos>>

\* lines 222-225: device.junos_version = new_version; last_seen_at; commit
UUpdateDevice(w) ==
    /\ inv[w].pc = "up_update"
    /\ LET d == inv[w].device IN
       IF d \in rows
       THEN /\ devinfo' = [devinfo EXCEPT ![d].junos_version = inv[w].new_version,
                                          ![d].last_seen_at = w]
            /\ inv' = [inv EXCEPT ![w].pc = "up_finish"]
            /\ UNCHANGED jobs
       ELSE /\ UFailed(w, "StaleDataError", inv[w].calls)
            /\ UNCHANGED devinfo
    /\ UNCHANGED <<rows, backups, repo, junos>>

\* lines 227-252: the result is stored and the job marked 'completed'
UFinish(w) ==
    /\ inv[w].pc = "up_finish"
    /\ jobs' = WriteJob(w, [jobs[w] EXCEPT
                    !.status = "completed", !.finished_at = TRUE,
                    !.result = [kind |-> "upgraded",
                                new_version |-> inv[w].new_version,
                                ai_recommendation |-> inv[w].recommendation,
                                pre_backup_commit |-> inv[w].pre,
                                post_backup_commit |-> inv[w].post]])
    /\ inv' = [inv EXCEPT ![w].pc = "done"]
    /\ UNCHANGED <<rows, devinfo, backups, repo, junos>>

Upgrade(w) ==
    \/ \E d \in Devices : UStart(w, d)
    \/ UPrepare(w)
    \/ UHealth(w)
    \/ UReadiness(w)
    \/ UPlan(w)
    \/ UPreBackup(w)
    \/ USnapshot(w)
    \/ UUpload(w)
    \/ UInstall(w)
    \/ UReboot(w)
    \/ UReconnect(w)
    \/ UPostBackup(w)
    \/ UFacts(w)
    \/ UAnalyze(w)
    \/ UUpdateDevice(w)
    \/ UFinish(w)

----------------------------------------------------------------------------
(* backup_device (worker/tasks/backup.py) *)

\* lines 30-48
BStart(w, d) ==
    /\ inv[w].pc = "idle"
    /\ IF d \in rows
       THEN /\ inv' = [inv EXCEPT ![w] = [IdleInv EXCEPT
                          !.pc = "bk_fetch", !.task = "backup", !.device = d]]
            /\ jobs' = [jobs EXCEPT ![w] = NewJob("backup", d)]
       ELSE /\ inv' = [inv EXCEPT ![w] = [IdleInv EXCEPT
                          !.pc = "raised", !.task = "backup", !.device = d,
                          !.exc = "DeviceNotFound"]]
            /\ UNCHANGED jobs
    /\ UNCHANGED <<rows, devinfo, backups, repo, junos>>

\* lines 106-119: the job is marked failed and a result is returned; the
\* exception is not re-raised
BFailed(w, err, calls) ==
    /\ jobs' = WriteJob(w, [jobs[w] EXCEPT
                    !.status = "failed", !.finished_at = TRUE, !.error = err])
    /\ inv' = [inv EXCEPT ![w].pc = "done", ![w].exc = err, ![w].calls = calls]

\* lines 51-62: PyEZService.get_config, GitService.save_config
BFetch(w) ==
    /\ inv[w].pc = "bk_fetch"
    /\ LET d == inv[w].device IN
       \E outcome \in {"ok", "get_config_raises", "save_raises"} :
          CASE outcome = "ok" ->
                 /\ repo' = save_config(w, d, junos[d].active, "backup")
                 /\ inv' = [inv EXCEPT ![w].pc = "bk_record",
                               ![w].pre = SavedToken(w, d, "backup"),
                               ![w].calls = Log(w, "get_config") \o <<Ok("save_config")>>]
                 /\ UNCHANGED jobs
            [] outcome = "get_config_raises" ->
                 /\ BFailed(w, "ConfigFetchError", LogEx(w, "get_config"))
                 /\ UNCHANGED repo
            [] outcome = "save_raises" ->
                 /\ BFailed(w, "GitError", Log(w, "get_config") \o <<Ex("save_config")>>)
                 /\ UNCHANGED repo
    /\ UNCHANGED <<rows, devinfo, backups, junos>>

\* lines 64-88: the ConfigBackup row, Device.last_backup_at and the job's
\* success are written by one commit
BRecord(w) ==
    /\ inv[w].pc = "bk_record"
    /\ LET d == inv[w].device IN
       IF d \in rows /\ jobs[w] # NoJob
       THEN /\ backups' = backups \cup
                   {[device_id |-> d, git_commit_sha |-> inv[w].pre.commit_sha,
                     job |-> w]}
            /\ devinfo' = [devinfo EXCEPT ![d].last_backup_at = w]
            /\ jobs' = [jobs EXCEPT ![w] = [jobs[w] EXCEPT
                           !.status = "success", !.finished_at = TRUE,
                           !.result = [kind |-> "backup",
                                       commit_sha |-> inv[w].pre.commit_sha]]]
            /\ inv' = [inv EXCEPT ![w].pc = "done"]
       ELSE /\ BFailed(w, "StaleDataError", inv[w].calls)
            /\ UNCHANGED <<backups, devinfo>>
    /\ UNCHANGED <<rows, repo, junos>>

\* lines 73-112: an exception that arrives after db.add(backup) and the
\* assignment of device.last_backup_at, and before db.commit() of line 88
\* has run, reaches the except clause with both still pending in the
\* session; the clause does not roll back, and its own db.commit() writes
\* them together with the failed status.
BRecordInterrupted(w, err) ==
    /\ inv[w].pc = "bk_record"
    /\ LET d == inv[w].device IN
          /\ d \in rows /\ jobs[w] # NoJob
          /\ backups' = backups \cup
                 {[device_id |-> d, git_commit_sha |-> inv[w].pre.commit_sha,
                   job |-> w]}
          /\ devinfo' = [devinfo EXCEPT ![d].last_backup_at = w]
          /\ BFailed(w, err, inv[w].calls)
    /\ UNCHANGED <<rows, repo, junos>>

Backup(w) ==
    \/ \E d \in Devices : BStart(w, d)
    \/ BFetch(w)
    \/ BRecord(w)

----------------------------------------------------------------------------
(* health_check_device (worker/tasks/health.py) *)

\* lines 30-47
HStart(w, d) ==
    /\ inv[w].pc = "idle"
    /\ IF d \in rows
       THEN /\ inv' = [inv EXCEPT ![w] = [IdleInv EXCEPT
                          !.pc = "hc_gather", !.task = "health", !.device = d]]
            /\ jobs' = [jobs EXCEPT ![w] = NewJob("health", d)]
       ELSE /\ inv' = [inv EXCEPT ![w] = [IdleInv EXCEPT
                          !.pc = "raised", !.task = "health", !.device = d,
                          !.exc = "DeviceNotFound"]]
            /\ UNCHANGED jobs
    /\ UNCHANGED <<rows, devinfo, backups, repo, junos>>

\* lines 101-114: as in backup_device
HFailed(w, err, calls) ==
    /\ jobs' = WriteJob(w, [jobs[w] EXCEPT
                    !.status = "failed", !.finished_at = TRUE, !.error = err])
    /\ inv' = [inv EXCEPT ![w].pc = "done", ![w].exc = err, ![w].calls = calls]

\* lines 50-65: get_facts, get_system_storage, and get_ipsec_sa, whose
\* failure is only logged
HGather(w) ==
    /\ inv[w].pc = "hc_gather"
    /\ \E outcome \in {"ok", "no_tunnels", "facts_raises", "storage_raises"},
          reported \in Versions :
          CASE outcome = "ok" ->
                 /\ inv' = [inv EXCEPT ![w].pc = "hc_record",
                               ![w].new_version = reported,
                               ![w].calls = Log(w, "facts") \o <<Ok("storage"), Ok("ipsec_sa")>>]
                 /\ UNCHANGED jobs
            [] outcome = "no_tunnels" ->
                 /\ inv' = [inv EXCEPT ![w].pc = "hc_record",
                               ![w].new_version = reported,
                               ![w].calls = Log(w, "facts") \o <<Ok("storage"), Ex("ipsec_sa")>>]
                 /\ UNCHANGED jobs
            [] outcome = "facts_raises" ->
                 HFailed(w, "ConnectError", LogEx(w, "facts"))
            [] outcome = "storage_raises" ->
                 HFailed(w, "RpcError", Log(w, "facts") \o <<Ex("storage")>>)
    /\ UNCHANGED <<rows, devinfo, backups, repo, junos>>

\* lines 67-82: the device facts and the job's success, one commit
HRecord(w) ==
    /\ inv[w].pc = "hc_record"
    /\ LET d == inv[w].device IN
       IF d \in rows /\ jobs[w] # NoJob
       THEN /\ devinfo' = [devinfo EXCEPT ![d].junos_version = inv[w].new_version,
                                          ![d].last_seen_at = w]
            /\ jobs' = [jobs EXCEPT ![w] = [jobs[w] EXCEPT
                           !.status = "success", !.finished_at = TRUE,
                           !.result = [kind |-> "health",
                                       version |-> inv[w].new_version]]]
            /\ inv' = [inv EXCEPT ![w].pc = "done"]
       ELSE /\ HFailed(w, "StaleDataError", inv[w].calls)
            /\ UNCHANGED devinfo
    /\ UNCHANGED <<rows, backups, repo, junos>>

Health(w) ==
    \/ \E d \in Devices : HStart(w, d)
    \/ HGather(w)
    \/ HRecord(w)

----------------------------------------------------------------------------
(* PyEZService.commit_check (app/services/pyez_service.py) *)

\* dev.cu.rollback(): the candidate is set back to the active configuration
rollback(dv) == [dv EXCEPT !.candidate = dv.active]

\* line 192: a caller passes a device row and the changes to check
CKStart(w, d, cmds) ==
    /\ inv[w].pc = "idle"
    /\ d \in rows
    /\ inv' = [inv EXCEPT ![w] = [IdleInv EXCEPT
                  !.pc = "ck_open", !.task = "commit_check",
                  !.device = d, !.cmds = cmds]]
    /\ UNCHANGED <<rows, devinfo, jobs, backups, repo, junos>>

\* line 203 with lines 53-72: PyEZService.connect opens the session or
\* re-raises what dev.open() raised
CKOpen(w) ==
    /\ inv[w].pc = "ck_open"
    /\ \E ok \in BOOLEAN :
          IF ok
          THEN inv' = [inv EXCEPT ![w].pc = "ck_load", ![w].session = TRUE,
                          ![w].calls = Log(w, "open")]
          ELSE inv' = [inv EXCEPT ![w].pc = "raised", ![w].exc = "ConnectError",
                          ![w].calls = LogEx(w, "open")]
    /\ UNCHANGED <<rows, devinfo, jobs, backups, repo, junos>>

\* line 206: dev.cu.load(config_changes, format='set', merge=True).
\* connect() hands out the device without dev.bind(cu=Config) (lines
\* 53-65; compare config_change.py, line 83).  Where the device object has
\* no attribute cu, dev.cu raises AttributeError before any call reaches
\* the device, here and again in the except clause (line 222), where the
\* bare except swallows it: the method returns (False, error) having made
\* no call.  The branch in which the attribute is there is kept as well.
CKLoad(w) ==
    /\ inv[w].pc = "ck_load"
    /\ LET d == inv[w].device IN
       \E bound \in BOOLEAN, ok \in BOOLEAN, kept \in SUBSET inv[w].cmds :
          IF ~bound
          THEN /\ inv' = [inv EXCEPT ![w].pc = "ck_close",
                             ![w].exc = "AttributeError"]
               /\ UNCHANGED junos
          ELSE IF ok
          THEN /\ junos' = [junos EXCEPT ![d] = load(junos[d], inv[w].cmds)]
               /\ inv' = [inv EXCEPT ![w].pc = "ck_check",
                             ![w].calls = Log(w, "load")]
          ELSE /\ junos' = [junos EXCEPT ![d] = load(junos[d], kept)]
               /\ inv' = [inv EXCEPT ![w].pc = "ck_recover",
                             ![w].exc = "LoadError",
                             ![w].calls = LogEx(w, "load")]
    /\ UNCHANGED <<rows, devinfo, jobs, backups, repo>>

\* line 209: dev.cu.commit_check()
CKCheck(w) ==
    /\ inv[w].pc = "ck_check"
    /\ \E ok \in BOOLEAN :
          IF ok
          THEN inv' = [inv EXCEPT ![w].pc = "ck_diff",
                          ![w].calls = Log(w, "commit_check")]
          ELSE inv' = [inv EXCEPT ![w].pc = "ck_recover",
                          ![w].exc = "CommitError",
                          ![w].calls = LogEx(w, "commit_check")]
    /\ UNCHANGED <<rows, devinfo, jobs, backups, repo, junos>>

\* line 212: diff = dev.cu.diff()
CKDiff(w) ==
    /\ inv[w].pc = "ck_diff"
    /\ \E ok \in BOOLEAN :
          IF ok
          THEN inv' = [inv EXCEPT ![w].pc = "ck_rollback",
                          ![w].diff = cu_diff(junos[inv[w].device]),
                          ![w].calls = Log(w, "diff")]
          ELSE inv' = [inv EXCEPT ![w].pc = "ck_recover",
                          ![w].exc = "RpcError",
                          ![w].calls = LogEx(w, "diff")]
    /\ UNCHANGED <<rows, devinfo, jobs, backups, repo, junos>>

\* lines 215-217: dev.cu.rollback(), then return True, diff
CKRollback(w) ==
    /\ inv[w].pc = "ck_rollback"
    /\ LET d == inv[w].device IN
       \E ok \in BOOLEAN :
          IF ok
          THEN /\ junos' = [junos EXCEPT ![d] = rollback(junos[d])]
               /\ inv' = [inv EXCEPT ![w].pc = "ck_close",
                             ![w].calls = Log(w, "rollback")]
          ELSE /\ inv' = [inv EXCEPT ![w].pc = "ck_recover",
                             ![w].exc = "RpcError",
                             ![w].calls = LogEx(w, "rollback")]
               /\ UNCHANGED junos
    /\ UNCHANGED <<rows, devinfo, jobs, backups, repo>>

\* lines 219-226: the except clause issues dev.cu.rollback(), swallows
\* whatever that raises, and returns False, str(e)
CKRecover(w) ==
    /\ inv[w].pc = "ck_recover"
    /\ LET d == inv[w].device IN
       \E ok \in BOOLEAN :
          IF ok
          THEN /\ junos' = [junos EXCEPT ![d] = rollback(junos[d])]
               /\ inv' = [inv EXCEPT ![w].pc = "ck_close",
                             ![w].calls = Log(w, "rollback")]
          ELSE /\ inv' = [inv EXCEPT ![w].pc = "ck_close",
                             ![w].calls = LogEx(w, "rollback")]
               /\ UNCHANGED junos
    /\ UNCHANGED <<rows, devinfo, jobs, backups, repo>>

\* lines 75-81: on the way out of the with block connect() closes the
\* session and swallows what dev.close() raises.  The method has returned
\* (True, diff) when exc is None, and (False, exc) otherwise.
CKClose(w) ==
    /\ inv[w].pc = "ck_close"
    /\ \E ok \in BOOLEAN :
          inv' = [inv EXCEPT ![w].pc = "done", ![w].session = FALSE,
                     ![w].calls = IF ok THEN Log(w, "close") ELSE LogEx(w, "close")]
    /\ UNCHANGED <<rows, devinfo, jobs, backups, repo, junos>>

CommitCheck(w) ==
    \/ \E d \in Devices, cmds \in Batches : CKStart(w, d, cmds)
    \/ CKOpen(w)
    \/ CKLoad(w)
    \/ CKCheck(w)
    \/ CKDiff(w)
    \/ CKRollback(w)
    \/ CKRecover(w)
    \/ CKClose(w)

----------------------------------------------------------------------------
(* The worker pool and the API *)

\* Steps during which a device session opened by PyEZService.connect is
\* closed: connect() logs and swallows whatever dev.close() raises
\* (pyez_service.py, lines 75-81).
ClosingSteps == {"cc_prebackup", "cc_return_nodiff", "cc_postbackup", "bk_fetch", "hc_gather"}

\* The exception raised inside the call the task is in.
SoftTimeLimitRaised(w) ==
    /\ \E swallowed \in BOOLEAN :
          IF inv[w].pc = "up_reconnect"
          THEN UPassFailed(w, "other", TRUE)
          ELSE IF swallowed /\ inv[w].pc = "up_analyze"
          THEN /\ inv' = [inv EXCEPT ![w].pc = "up_update", ![w].soft = TRUE,
                             ![w].analysis = "unavailable",
                             ![w].recommendation = ai_recommendation("unavailable"),
                             ![w].calls = Log(w, "assess_result")]
               /\ UNCHANGED jobs
          ELSE IF swallowed /\ inv[w].pc = "up_readiness"
          THEN /\ jobs' = WriteJob(w, [jobs[w] EXCEPT
                             !.status = "failed", !.finished_at = TRUE,
                             !.error = "ReadinessFailed"])
               /\ inv' = [inv EXCEPT ![w].pc = "raised", ![w].soft = TRUE,
                             ![w].verdict = "unavailable",
                             ![w].exc = "ReadinessFailed",
                             ![w].calls = Log(w, "assess_readiness")]
          ELSE IF inv[w].pc = "cc_return_nodiff" \/ (swallowed /\ inv[w].pc \in ClosingSteps)
          THEN /\ inv' = [inv EXCEPT ![w].soft = TRUE]
               /\ UNCHANGED jobs
          ELSE CASE inv[w].task = "config_change" ->
                      CCFailed(w, IF inv[w].pc \in {"cc_probe", "cc_confirm"}
                                  THEN ConnectivityLost("SoftTimeLimitExceeded")
                                  ELSE "SoftTimeLimitExceeded", inv[w].calls)
                 [] inv[w].task = "upgrade" ->
                      UFailed(w, "SoftTimeLimitExceeded", inv[w].calls)
                 [] inv[w].task = "backup" ->
                      BFailed(w, "SoftTimeLimitExceeded", inv[w].calls)
                 [] inv[w].task = "health" ->
                      HFailed(w, "SoftTimeLimitExceeded", inv[w].calls)
    /\ UNCHANGED <<rows, devinfo, backups, repo, junos>>

\* celery_app.py: task_soft_time_limit=1500.  At the soft limit the pool
\* raises SoftTimeLimitExceeded, once, inside the call the task is in.  It
\* is an Exception: the reconnection loop of the upgrade takes it for a
\* failed pass, connect() swallows it when it arrives during dev.close(),
\* the probe wraps it, and everywhere else the except clause of the task
\* gets it.  (After the no-change commit only dev.close() is left to run.)
\* When it arrives inside a call of an oracle, AIService catches it
\* (ai_service.py, 540-545 and 778-783) and answers success false.
\* Inside backup_device it may come before or after the rows of the
\* success path were added to the session.
SoftTimeLimit(w) ==
    /\ inv[w].pc \notin Exited \cup {"idle"}
    /\ ~inv[w].soft
    /\ \/ BRecordInterrupted(w, "SoftTimeLimitExceeded")
       \/ SoftTimeLimitRaised(w)

\* celery_app.py: task_time_limit=1800.  A task that is still running at
\* the hard limit, five minutes after the soft one, has its worker process
\* killed; no code of the task runs any more and the operating system
\* closes its connections.
HardTimeLimit(w) ==
    /\ inv[w].pc \notin Exited \cup {"idle"}
    /\ inv[w].soft
    /\ inv' = [inv EXCEPT ![w].pc = "killed", ![w].session = FALSE]
    /\ UNCHANGED <<rows, devinfo, jobs, backups, repo, junos>>

\* routers/jobs.py: delete_job
delete_job(j) ==
    /\ jobs[j] # NoJob
    /\ jobs' = [jobs EXCEPT ![j] = NoJob]
    /\ UNCHANGED <<rows, devinfo, backups, repo, junos, inv>>

\* routers/devices.py: delete_device; Device.jobs and Device.backups cascade
delete_device(d) ==
    /\ d \in rows
    /\ rows' = rows \ {d}
    /\ jobs' = [j \in Workers |->
                   IF jobs[j] # NoJob /\ jobs[j].device_id = d THEN NoJob ELSE jobs[j]]
    /\ backups' = {b \in backups : b.device_id # d}
    /\ UNCHANGED <<devinfo, repo, junos, inv>>

----------------------------------------------------------------------------

Init ==
    /\ rows = Devices
    /\ devinfo = [d \in Devices |-> InitialInfo]
    /\ jobs = [w \in Workers |-> NoJob]
    /\ backups = {}
    /\ repo = [files |-> [d \in Devices |-> {}], commits |-> {}]
    /\ junos = [d \in Devices |-> InitialJunos]
    /\ inv = [w \in Workers |-> IdleInv]

\* Callers of the git store only, each in its own worker process.
NextStore == \E w \in Workers : StoreClient(w)

SpecStore == Init /\ [][NextStore]_vars

\* The worker pool runs change jobs only.
NextChange ==
    \/ \E w \in Workers : ConfigChange(w)
    \/ \E d \in Devices : RollbackTimerFires(d)

SpecChange == Init /\ [][NextChange]_vars

\* The worker pool runs upgrade jobs only.
NextUpgrade == \E w \in Workers : Upgrade(w)

SpecUpgrade == Init /\ [][NextUpgrade]_vars

\* The worker pool runs orchestrated jobs of one kind, change or upgrade.
PoolRuns(kind) == \A w \in Workers : inv[w].task \in {"none", kind}

NextEither ==
    \/ \E w \in Workers : PoolRuns("config_change") /\ ConfigChange(w)
    \/ \E w \in Workers : PoolRuns("upgrade") /\ Upgrade(w)
    \/ \E d \in Devices : RollbackTimerFires(d)

SpecEither == Init /\ [][NextEither]_vars

\* Change jobs under the hard time limit, with the scheduling the pool
\* gives: a worker process that is not killed goes on with its task, and
\* an armed timer of a device expires.
NextChangeLimit ==
    \/ NextChange
    \/ \E w \in Workers : SoftTimeLimit(w)
    \/ \E w \in Workers : HardTimeLimit(w)

FairChange ==
    /\ Init /\ [][NextChangeLimit]_vars
    /\ \A w \in Workers : WF_vars(ConfigChange(w))
    /\ \A d \in Devices : WF_vars(RollbackTimerFires(d))

\* Upgrade jobs under the time limits, scheduled the same way.
NextUpgradeLimit ==
    \/ NextUpgrade
    \/ \E w \in Workers : SoftTimeLimit(w)
    \/ \E w \in Workers : HardTimeLimit(w)

FairUpgrade ==
    /\ Init /\ [][NextUpgradeLimit]_vars
    /\ \A w \in Workers : WF_vars(Upgrade(w))

\* The rows db.query(Job).filter(Job.device_id == d, Job.job_type == type,
\* Job.status == status) runs over; order_by(...).first() takes one of
\* them, or None when there is none.
query_jobs(d, type, status) ==
    {j \in Workers : /\ jobs[j] # NoJob
                     /\ jobs[j].device_id = d
                     /\ jobs[j].job_type = type
                     /\ jobs[j].status = status}

\* routers/devices.py, lines 190-197: the health job whose result_json
\* check_upgrade_readiness passes to the oracle as health_data
check_upgrade_readiness(d) == query_jobs(d, "health_check", "completed")

\* routers/devices.py, lines 660-668: the health job whose result_json
\* chat_with_ai puts into the context of the chat
chat_with_ai(d) == query_jobs(d, "health_check", "success")

\* Callers of PyEZService.commit_check.
NextCheck == \E w \in Workers : CommitCheck(w)

SpecCheck == Init /\ [][NextCheck]_vars

\* The backup and health queues: their two tasks under the time limits,
\* and the delete endpoints.
NextMaintenance ==
    \/ \E w \in Workers : Backup(w) \/ Health(w)
    \/ \E w \in Workers : SoftTimeLimit(w)
    \/ \E w \in Workers : HardTimeLimit(w)
    \/ \E j \in Workers : delete_job(j)
    \/ \E d \in Devices : delete_device(d)

SpecMaintenance == Init /\ [][NextMaintenance]_vars

\* The whole system: the four tasks, the device timers, the delete
\* endpoints and the time limits.
Next ==
    \/ \E w \in Workers : ConfigChange(w) \/ Upgrade(w) \/ Backup(w) \/ Health(w)
    \/ \E w \in Workers : SoftTimeLimit(w)
    \/ \E w \in Workers : HardTimeLimit(w)
    \/ \E d \in Devices : RollbackTimerFires(d)
    \/ \E j \in Workers : delete_job(j)
    \/ \E d \in Devices : delete_device(d)

Spec == Init /\ [][Next]_vars

----------------------------------------------------------------------------
(* Reading the state *)

Range(s) == {s[i] : i \in DOMAIN s}

IsPrefix(s, t) == Len(s) <= Len(t) /\ \A i \in DOMAIN s : s[i] = t[i]

\* the operations invocation w has called, in order
Ops(w) == [i \in DOMAIN inv[w].calls |-> inv[w].calls[i].op]

Called(w, op) == \E i \in DOMAIN inv[w].calls : inv[w].calls[i].op = op

Returned(w, op) == Ok(op) \in Range(inv[w].calls)

RaisedIn(w, op) == Ex(op) \in Range(inv[w].calls)

CountOf(w, op) == Cardinality({i \in DOMAIN inv[w].calls : inv[w].calls[i].op = op})

JobStatus(w) == IF jobs[w] = NoJob THEN "absent" ELSE jobs[w].status

IsChange(w) == inv[w].task = "config_change"

IsUpgrade(w) == inv[w].task = "upgrade"

----------------------------------------------------------------------------
(* Properties of apply_config_commands *)

\* The post-commit reachability probe of change job w raised.
ProbeRaised(w) == IsChange(w) /\ RaisedIn(w, "facts")

\* C1: whenever the post-commit reachability probe of a change job raises,
\* that job never sends the confirming commit (its number of confirm calls
\* is 0) and it ends with its job record failed.
C1_NoConfirmAfterFailedProbe ==
    \A w \in Workers :
        ProbeRaised(w) =>
            /\ CountOf(w, "confirm") = 0
            /\ inv[w].pc = "raised"
            /\ JobStatus(w) = "failed"

\* A change job committed with confirmation and then lost the device at the probe.
C1_Witness ==
    \E w \in Workers :
        /\ ProbeRaised(w)
        /\ Returned(w, "commit_confirmed")
        /\ inv[w].pc = "raised"

\* Change job w computed the diff of its staged edit and it was empty.
EmptyDiff(w) == IsChange(w) /\ Returned(w, "diff") /\ inv[w].diff = {}

C2_EndsWithoutCommit ==
    \A w \in Workers :
        EmptyDiff(w) =>
            /\ ~Called(w, "commit_confirmed")
            /\ ~Called(w, "confirm")
            /\ inv[w].pc \in {"cc_return_nodiff", "done"}
            /\ inv[w].exc = None
            /\ JobStatus(w) \notin {"running", "failed"}
            /\ jobs[w].finished_at
            /\ jobs[w].result = [kind |-> "no_changes", success |-> TRUE,
                                 message |-> "No changes detected"]

C2_LeavesActiveAlone ==
    \A w \in Workers :
        (EmptyDiff(w)' /\ inv'[w] # inv[w]) =>
            junos'[inv[w].device].active = junos[inv[w].device].active

\* C2: when the diff of the staged edit of a change job is empty, the job
\* ends with a success result saying that no change was detected, without
\* having issued commit-confirmed or confirm, and the steps that end it
\* leave the active configuration of the device as it was.
C2_EmptyDiffIsNoOp == []C2_EndsWithoutCommit /\ [][C2_LeavesActiveAlone]_vars

\* A change job saw an empty diff and has returned.
C2_Witness ==
    \E w \in Workers :
        /\ EmptyDiff(w)
        /\ inv[w].pc = "done"
        /\ JobStatus(w) = "completed"

\* The calls of a change job that applies a change, and of one that finds
\* nothing to change.
FullPath ==
    <<"get_config", "save_config", "open", "load", "diff", "commit_confirmed",
      "facts", "confirm", "close", "get_config", "save_config">>

NoDiffPath == <<"get_config", "save_config", "open", "load", "diff", "close">>

\* C3: a change job visits its phases in order only: its calls are a
\* prefix of snapshot, open, load, diff, commit-confirmed, probe, confirm,
\* close, snapshot (or the no-change path), and no call follows one that
\* raised.  So no load happens before the pre-change snapshot was saved, no
\* confirm without a commit-confirmed and a probe that returned, and the
\* job is marked applied only after the confirm and the post-change
\* snapshot.
C3_PhaseOrder ==
    \A w \in Workers :
        IsChange(w) =>
            /\ IsPrefix(Ops(w), FullPath) \/ Ops(w) = NoDiffPath
            /\ \A i \in DOMAIN inv[w].calls :
                   inv[w].calls[i].raised => i = Len(inv[w].calls)
            /\ (JobStatus(w) = "completed" /\ jobs[w].result.kind = "applied") =>
                   /\ Ops(w) = FullPath
                   /\ \A i \in DOMAIN inv[w].calls : ~inv[w].calls[i].raised

\* A change job went through every phase and is marked applied.
C3_Witness ==
    \E w \in Workers :
        /\ IsChange(w)
        /\ Ops(w) = FullPath
        /\ JobStatus(w) = "completed"
        /\ jobs[w].result.kind = "applied"

\* C4: when a change job has issued commit-confirmed, then either it issues
\* the confirm or the active configuration of the device eventually is
\* again the one that was active before that commit-confirmed, whatever
\* other jobs do.
C4_UnconfirmedCommitReverts ==
    \A w \in Workers :
        (inv[w].pc = "cc_probe") ~>
            \/ Called(w, "confirm")
            \/ /\ inv[w].device \in Devices
               /\ junos[inv[w].device].active = inv[w].before

----------------------------------------------------------------------------
(* Properties of the job records and of the pool *)

\* An orchestrated job is at work on its device: it has made its first
\* call and has not ended.
AtWork(w) ==
    /\ inv[w].task \in {"config_change", "upgrade"}
    /\ inv[w].calls # <<>>
    /\ inv[w].pc \notin Exited

\* C5: no two orchestrated jobs are at work on the same device at once.
C5_NoOverlapOnDevice ==
    \A w, v \in Workers :
        (w # v /\ AtWork(w) /\ AtWork(v)) => inv[w].device # inv[v].device

\* The status values a task writes when it ends a job: the documented
\* terminal ones, and the 'completed' that change and upgrade write.
EndStatuses == TerminalStatuses \cup {"completed"}

C7_StatusDocumented ==
    \A j \in Workers : jobs[j] # NoJob => jobs[j].status \in DocumentedStatuses

\* C8: every job record that is running eventually has an end status.
C8_RunningEnds ==
    \A w \in Workers :
        (JobStatus(w) = "running") ~> (JobStatus(w) \notin {"pending", "running"})

----------------------------------------------------------------------------
(* Properties of the failure boundary and of the readiness gate *)

\* The exception a failing call raises, named after the call.
ErrorOf(op) ==
    CASE op = "get_config" -> "ConfigFetchError"
      [] op = "save_config" -> "GitError"
      [] op = "open" -> "ConnectError"
      [] op = "load" -> "LoadError"
      [] op = "diff" -> "RpcError"
      [] op \in {"commit_confirmed", "confirm"} -> "CommitError"
      [] op = "facts" -> "FactsError"
      [] op = "health_check" -> "HealthError"
      [] op = "generate_plan" -> "PlanFailed"
      [] op = "snapshot" -> "SnapshotError"
      [] op = "upload" -> "TransferError"
      [] op = "install" -> "InstallError"
      [] op = "reboot" -> "RebootError"
      [] OTHER -> "Error"

\* A change or upgrade job whose job record was created.
Recorded(w) == inv[w].task \in {"config_change", "upgrade"} /\ jobs[w] # NoJob

\* An exception that leaves its phase ends the invocation at the except
\* clause of the task: the job is failed with finished_at and the text of
\* the exception, and the invocation ends raising it.
CaughtAtBoundary(w) ==
    /\ (\E i \in DOMAIN inv[w].calls : inv[w].calls[i].raised) => inv[w].pc = "raised"
    /\ inv[w].pc = "raised" =>
           /\ inv[w].exc # None
           /\ jobs[w].status = "failed"
           /\ jobs[w].finished_at
           /\ jobs[w].error = inv[w].exc
    /\ jobs[w].status = "failed" => inv[w].pc = "raised"

AfterCommit == {"facts", "confirm"}

C10_NotReadyStopsUpgrade ==
    \A w \in Workers :
        (IsUpgrade(w) /\ inv[w].verdict = "not_ready") =>
            /\ inv[w].pc = "raised"
            /\ inv[w].exc = "NotReady"
            /\ JobStatus(w) = "failed"
            /\ \A op \in {"snapshot", "upload", "install", "reboot",
                          "get_config", "save_config"} : ~Called(w, op)
            /\ inv[w].attempt = 0
            /\ \A c \in repo.commits : c.commit_sha[1] # w

\* The oracle answered not ready to an upgrade job.
C10_Witness ==
    \E w \in Workers :
        /\ IsUpgrade(w)
        /\ inv[w].verdict = "not_ready"
        /\ Returned(w, "health_check")

----------------------------------------------------------------------------
(* Properties of the reconnection loop of upgrade_device *)

\* C11: after the reboot the reconnection loop makes at most max_retries
\* (12) passes; when none of them succeeds it raises "did not come back
\* online", the job is recorded failed, and no further pass is made.
C11_AtMostNAttempts ==
    \A w \in Workers :
        IsUpgrade(w) =>
            /\ inv[w].attempt \in 0..max_retries
            /\ inv[w].pc = "up_reconnect" => inv[w].attempt < max_retries
            /\ (inv[w].attempt = max_retries /\ inv[w].pc # "up_postbackup") =>
                   /\ inv[w].pc = "raised"
                   /\ inv[w].exc = "DidNotComeBack"
                   /\ JobStatus(w) = "failed"
            /\ inv[w].exc = "DidNotComeBack" => inv[w].attempt = max_retries

\* All twelve passes of an upgrade job failed.
C11_Witness ==
    \E w \in Workers :
        /\ IsUpgrade(w)
        /\ inv[w].exc = "DidNotComeBack"
        /\ inv[w].attempt = max_retries
        /\ JobStatus(w) = "failed"

\* The calls of an upgrade job that goes through all ten phases.
UpgradePath ==
    <<"open", "health_check", "assess_readiness", "generate_plan",
      "get_config", "save_config", "snapshot", "upload", "install", "reboot",
      "get_config", "save_config", "facts", "assess_result">>

\* The loop has stopped on a pass that returned: the job is at the
\* post-upgrade validation, running, after between 1 and max_retries passes.
C12_StopsAtFirstSuccess ==
    \A w \in Workers :
        IsUpgrade(w) =>
            /\ inv[w].pc = "up_postbackup" =>
                   /\ inv[w].attempt \in 1..max_retries
                   /\ inv[w].exc = None
                   /\ JobStatus(w) = "running"
            /\ JobStatus(w) = "completed" =>
                   /\ Ops(w) = UpgradePath
                   /\ \A i \in DOMAIN inv[w].calls : ~inv[w].calls[i].raised
                   /\ inv[w].pc = "done"

\* Every pass counts once, the pass that returns is the last one, and no
\* pass is made outside the loop.
C12_PassByPass ==
    \A w \in Workers :
        (IsUpgrade(w) /\ inv'[w] # inv[w]) =>
            IF inv[w].pc = "up_reconnect"
            THEN /\ inv'[w].attempt = inv[w].attempt + 1
                 /\ inv'[w].pass_error = None <=> inv'[w].pc = "up_postbackup"
                 /\ inv'[w].pass_error # None =>
                        inv'[w].pc = IF inv'[w].attempt = max_retries
                                     THEN "raised" ELSE "up_reconnect"
            ELSE inv'[w].attempt \in {inv[w].attempt, 0}

C13_OnlyUnreachableRetried ==
    \A w \in Workers :
        (IsUpgrade(w) /\ inv[w].pass_error = "other") =>
            /\ inv[w].pc = "raised"
            /\ inv[w].exc # "DidNotComeBack"
            /\ JobStatus(w) = "failed"

----------------------------------------------------------------------------
(* Properties of the remaining phases of upgrade_device *)

\* C14: loss of connectivity at the reboot is expected: when the reboot
\* instruction itself raises (the session drops while the device goes
\* down), the job is not failed for it and goes on to the reconnection loop.
C14_RebootDropExpected ==
    \A w \in Workers :
        (IsUpgrade(w) /\ RaisedIn(w, "reboot")) =>
            /\ JobStatus(w) # "failed"
            /\ inv[w].exc # ErrorOf("reboot")

\* C15: an upgrade job changes the recorded firmware version of a device
\* only to a version the device reports and that differs from the recorded
\* one; it keeps the recorded value when the device reports the same
\* version or none.
C15_VersionOnlyIfChanged ==
    [][\A d \in Devices :
          devinfo'[d].junos_version # devinfo[d].junos_version =>
              devinfo'[d].junos_version \in Versions]_vars

\* C16: every device session opened by a change or upgrade invocation is
\* closed by the time the invocation has exited, by return or by raise.
C16_SessionsClosedOnExit ==
    \A w \in Workers :
        (inv[w].task \in {"config_change", "upgrade"} /\ inv[w].pc \in {"done", "raised"}) =>
            ~inv[w].session

----------------------------------------------------------------------------
(* Properties of the failure paths of apply_config_commands *)

\* C17: when the device rejects the staged commands at load, the change
\* job ends failed, without commit-confirmed or confirm, and with the
\* candidate discarded (equal to the active configuration again) by the
\* time the failure is recorded and the session released.
C17_LoadRejectedRollsBack ==
    [][\A w \in Workers :
          (IsChange(w) /\ inv[w].pc = "cc_load" /\ RaisedIn(w, "load")') =>
              /\ JobStatus(w)' = "failed"
              /\ ~Called(w, "commit_confirmed")' /\ ~Called(w, "confirm")'
              /\ ~inv'[w].session
              /\ junos'[inv[w].device].candidate = junos'[inv[w].device].active]_vars

\* The labels of the configuration versions job w has stored.
LabelsOf(w) == {c.commit_sha[2] : c \in {x \in repo.commits : x.commit_sha[1] = w}}

\* Job w has ended, completed or failed, past its load step (for an
\* upgrade: past the installation of the image).
EndedPastLoad(w) ==
    /\ Recorded(w)
    /\ JobStatus(w) \in {"completed", "failed"}
    /\ \/ IsChange(w) /\ Returned(w, "load")
       \/ IsUpgrade(w) /\ Returned(w, "install")

C19_ProbeFailureKeepsDiff ==
    \A w \in Workers :
        (IsChange(w) /\ Recorded(w) /\ ProbeRaised(w)) =>
            /\ JobStatus(w) = "failed"
            /\ jobs[w].error = ConnectivityLost("FactsError")
            /\ "diff" \in DOMAIN jobs[w].result
            /\ jobs[w].result.diff = inv[w].diff

----------------------------------------------------------------------------
(* Properties of the job record of upgrade_device *)

\* C20: every phase of an upgrade persists its progress when it completes.
\* So when an upgrade has failed, or its worker was killed, after the
\* pre-upgrade snapshot was saved, the job record already holds the token
\* of that snapshot.
C20_ProgressPersisted ==
    \A w \in Workers :
        ( /\ IsUpgrade(w) /\ Recorded(w)
          /\ Returned(w, "save_config")
          /\ JobStatus(w) = "failed" \/ inv[w].pc = "killed" ) =>
            /\ "pre_backup_commit" \in DOMAIN jobs[w].result
            /\ jobs[w].result.pre_backup_commit = inv[w].pre

----------------------------------------------------------------------------
(* Properties of the advisory oracles of upgrade_device *)

\* The calls of an upgrade that change the device or the store.
Mutations == {"save_config", "snapshot", "upload", "install", "reboot"}

\* C21: an unavailable oracle neither blocks nor crashes an upgrade.  When
\* the readiness oracle was unavailable the job has ended, failed as for a
\* device that is not ready, before any call that changes the device.  When
\* the result oracle was unavailable the recommendation is investigate, the
\* job goes on to its end, and if it ended completed its result carries
\* investigate; the unavailable oracle is never the error of the job.
C21_OracleUnavailableIsSafe ==
    \A w \in Workers :
        IsUpgrade(w) =>
            /\ inv[w].verdict = "unavailable" =>
                   /\ inv[w].pc = "raised"
                   /\ JobStatus(w) \in {"failed", "absent"}
                   /\ \A op \in Mutations : ~Called(w, op)
                   /\ LabelsOf(w) = {}
            /\ inv[w].analysis = "unavailable" =>
                   /\ inv[w].recommendation = "investigate"
                   /\ inv[w].pc \in {"up_update", "up_finish", "done", "raised", "killed"}
                   /\ inv[w].pc = "raised" =>
                          inv[w].exc \in {"StaleDataError", "SoftTimeLimitExceeded"}
                   /\ inv[w].pc = "done" =>
                          /\ JobStatus(w) \in {"completed", "absent"}
                          /\ JobStatus(w) = "completed" =>
                                 jobs[w].result.ai_recommendation = "investigate"

\* One upgrade was stopped at the gate by an unavailable readiness oracle,
\* another ended completed with investigate after an unavailable result
\* oracle.
C21_Witness ==
    \E w, x \in Workers :
        /\ IsUpgrade(w) /\ inv[w].verdict = "unavailable" /\ JobStatus(w) = "failed"
        /\ IsUpgrade(x) /\ inv[x].analysis = "unavailable"
        /\ JobStatus(x) = "completed"
        /\ jobs[x].result.ai_recommendation = "investigate"

\* The recommendations of the result oracle's contract.
Recommendations == {"proceed", "rollback", "investigate"}

\* C22: the recommendation stored in the result of a completed upgrade job
\* is one of proceed, rollback, investigate; an answer of the oracle that
\* carries another value, or none, is stored as investigate.
C22_RecommendationEnumerated ==
    \A w \in Workers :
        (IsUpgrade(w) /\ JobStatus(w) = "completed") =>
            /\ jobs[w].result.ai_recommendation \in Recommendations
            /\ inv[w].analysis \notin Recommendations =>
                   jobs[w].result.ai_recommendation = "investigate"

----------------------------------------------------------------------------
(* Properties of the git store *)

\* C23: reading a configuration by the token a save returned gives exactly
\* the content that was passed to that save, whatever other saves happen
\* before the read.
C23_ReadReturnsWhatWasSaved ==
    \A w \in Workers :
        (inv[w].task = "save" /\ inv[w].pc = "done") => inv[w].read = inv[w].config_text

----------------------------------------------------------------------------
(* Properties of the tables *)

\* The statuses of a job that is still active.
ActiveStatuses == {"pending", "running"}

\* C24: a device is never deleted while a job that references it is still
\* active: in every step that removes a device row, no job of that device
\* is pending or running.
C24_NoDeleteWhileActive ==
    [][\A d \in rows :
          d \notin rows' =>
              \A j \in Workers :
                  (jobs[j] # NoJob /\ jobs[j].device_id = d) =>
                      jobs[j].status \notin ActiveStatuses]_vars

\* The time stamps of every job record agree with its status: started_at
\* is set, and finished_at is set exactly when the job has left running
\* (an end status: success, failed, cancelled, or the completed of change
\* and upgrade jobs).
StampsAgree ==
    \A j \in Workers :
        jobs[j] # NoJob =>
            /\ jobs[j].started_at
            /\ jobs[j].finished_at <=> jobs[j].status \in EndStatuses
            /\ ~jobs[j].finished_at <=> jobs[j].status \in ActiveStatuses

\* A step assigns started_at only in creating the record, running, and
\* finished_at only in moving it from running to an end status; after
\* that no step writes the record again.
StampedOnce ==
    \A j \in Workers :
        /\ (jobs[j] = NoJob /\ jobs'[j] # NoJob) =>
               /\ jobs'[j].status = "running"
               /\ jobs'[j].started_at /\ ~jobs'[j].finished_at
        /\ (jobs[j] # NoJob /\ jobs'[j] # NoJob) =>
               /\ jobs'[j].started_at = jobs[j].started_at
               /\ jobs[j].finished_at => jobs'[j] = jobs[j]
               /\ (~jobs[j].finished_at /\ jobs'[j].finished_at) =>
                      /\ jobs[j].status = "running"
                      /\ jobs'[j].status \in EndStatuses
               /\ (~jobs[j].finished_at /\ ~jobs'[j].finished_at) =>
                      jobs'[j].status = jobs[j].status

----------------------------------------------------------------------------
(* Properties of the result of apply_config_commands *)

\* Every call of change job w returned, through to the post-change
\* snapshot, and the job has left the task.
AllSucceeded(w) ==
    /\ IsChange(w)
    /\ Ops(w) = FullPath
    /\ \A i \in DOMAIN inv[w].calls : ~inv[w].calls[i].raised
    /\ inv[w].pc \in Exited

\* C26: a change job with a non-empty diff in which commit-confirmed, the
\* probe, the confirm and the post-change snapshot all succeeded ends
\* completed with a result that holds success = true, the diff the device
\* computed, and as pre_commit and post_commit the tokens of its own two
\* snapshots, both of them versions in the store.
C26_AppliedResult ==
    \A w \in Workers :
        AllSucceeded(w) =>
            /\ inv[w].pc = "done"
            /\ inv[w].diff # {}
            /\ JobStatus(w) = "completed"
            /\ jobs[w].result.success
            /\ jobs[w].result.diff = inv[w].diff
            /\ jobs[w].result.pre_commit = SavedToken(w, inv[w].device, "pre")
            /\ jobs[w].result.post_commit = SavedToken(w, inv[w].device, "post")
            /\ \A t \in {jobs[w].result.pre_commit, jobs[w].result.post_commit} :
                   \E c \in repo.commits :
                       c.commit_sha = t.commit_sha /\ c.file_path = t.file_path

\* A change job went through all its calls and ended with both tokens.
C26_Witness ==
    \E w \in Workers :
        /\ AllSucceeded(w)
        /\ jobs[w].result.kind = "applied"
        /\ jobs[w].result.pre_commit # jobs[w].result.post_commit
        /\ jobs[w].result.diff # {}

----------------------------------------------------------------------------
(* Properties of both orchestrated tasks *)

\* The device operations of a change job that change the device.
ChangeMutations == {"load", "commit_confirmed", "confirm"}

\* The device operations of an upgrade that change the device.
UpgradeMutations == {"snapshot", "upload", "install", "reboot"}

\* C27: within one change job load, commit-confirmed and confirm are each
\* issued at most once, within one upgrade system snapshot, upload, install
\* and reboot each at most once, and no call follows a call that raised:
\* only the reconnection after the reboot is attempted more than once.
C27_MutationsIssuedOnce ==
    \A w \in Workers :
        /\ IsChange(w) => \A op \in ChangeMutations : CountOf(w, op) <= 1
        /\ IsUpgrade(w) => \A op \in UpgradeMutations : CountOf(w, op) <= 1
        /\ (IsChange(w) \/ IsUpgrade(w)) =>
               \A i \in DOMAIN inv[w].calls :
                   inv[w].calls[i].raised => i = Len(inv[w].calls)

\* An upgrade is in its third reconnection attempt after its one reboot,
\* and another upgrade has ended on an installation that raised, issued
\* once.
C27_Witness ==
    \E w, x \in Workers :
        /\ IsUpgrade(w) /\ inv[w].attempt = 2 /\ CountOf(w, "reboot") = 1
        /\ IsUpgrade(x) /\ RaisedIn(x, "install") /\ CountOf(x, "install") = 1
        /\ inv[x].pc = "raised"

\* The place of the reboot on the upgrade path.
RebootAt == CHOOSE i \in DOMAIN UpgradePath : UpgradePath[i] = "reboot"

\* Upgrade w failed in one of phases 1 to 6: the gate stopped it, or one
\* of its calls up to the installation raised.
FailedBeforeReboot(w) ==
    \/ inv[w].verdict \notin {None, "ready"}
    \/ \E i \in DOMAIN inv[w].calls : i < RebootAt /\ inv[w].calls[i].raised

\* C28: the phases of an upgrade run in order and a failure in one of
\* them prevents every later one: the calls of the job are a prefix of the
\* upgrade path and a call that raised is the last; upload is issued only
\* after the readiness gate passed and the pre-upgrade snapshot and the
\* system snapshot returned, install only after upload returned, reboot
\* only after install returned.  So a job that failed before the reboot
\* has issued no reboot.
C28_UpgradePhaseOrder ==
    \A w \in Workers :
        IsUpgrade(w) =>
            /\ IsPrefix(Ops(w), UpgradePath)
            /\ \A i \in DOMAIN inv[w].calls :
                   inv[w].calls[i].raised => i = Len(inv[w].calls)
            /\ Called(w, "upload") =>
                   /\ inv[w].verdict = "ready"
                   /\ Returned(w, "save_config") /\ Returned(w, "snapshot")
            /\ Called(w, "install") => Returned(w, "upload")
            /\ Called(w, "reboot") => Returned(w, "install")
            /\ FailedBeforeReboot(w) => ~Called(w, "reboot")

\* An upgrade failed at the installation, after its upload, and issued no
\* reboot; another has issued its reboot after an installation that
\* returned.
C28_Witness ==
    \E w, x \in Workers :
        /\ IsUpgrade(w) /\ RaisedIn(w, "install") /\ Returned(w, "upload")
        /\ JobStatus(w) = "failed" /\ ~Called(w, "reboot")
        /\ IsUpgrade(x) /\ Returned(x, "install") /\ Called(x, "reboot")

\* What the record of a failed job says about the state the device was
\* left in.  The except clause of the task (upgrade.py, 254-266) writes
\* the status, finished_at and the text of the exception, nothing else.
DeviceStateMark(rec) ==
    IF "device_state" \in DOMAIN rec.result THEN rec.result.device_state ELSE None

\* Upgrade w failed in phase 7 or 8: its reboot raised, or the device did
\* not come back.
FailedInReboot(w) == RaisedIn(w, "reboot") \/ inv[w].exc = "DidNotComeBack"

\* C29: the record of an upgrade that failed in the reboot or in the
\* reconnection marks the device as possibly partially upgraded, to be
\* verified by hand, and the record of one that failed in phases 1 to 6
\* marks that no changes were made.
C29_FailureMarksDeviceState ==
    \A w \in Workers :
        (IsUpgrade(w) /\ JobStatus(w) = "failed") =>
            /\ FailedInReboot(w) => DeviceStateMark(jobs[w]) = "partially_upgraded"
            /\ FailedBeforeReboot(w) => DeviceStateMark(jobs[w]) = "no_changes"

\* C30: the device session of an orchestrated job is released before its
\* job record is moved to an end status: no job record has an end status
\* while its own invocation still holds an open session.
C30_SessionReleasedBeforeEnd ==
    \A w \in Workers :
        (Recorded(w) /\ JobStatus(w) \in EndStatuses) => ~inv[w].session

----------------------------------------------------------------------------
(* Properties of the device rows *)

\* Invocation w has written the recorded facts of a device: the time
\* stamps of a device row name the invocation that set them last.
WroteDevice(w) ==
    \E d \in Devices : devinfo[d].last_seen_at = w \/ devinfo[d].last_backup_at = w

\* The statuses a task gives a job that ended well.
SuccessStatuses == {"success", "completed"}

\* C31: the recorded facts and liveness markers of a device are changed
\* only as part of a health, backup or upgrade job that ends successfully:
\* an invocation that has ended and has written them is one of these three
\* tasks and its job did not end failed or unfinished; a change job never
\* writes them.
C31_FactsChangedBySuccessOnly ==
    \A w \in Workers :
        /\ IsChange(w) => ~WroteDevice(w)
        /\ (WroteDevice(w) /\ inv[w].pc \in Exited) =>
               /\ inv[w].task \in {"health", "backup", "upgrade"}
               /\ JobStatus(w) \in SuccessStatuses \cup {"absent"}

----------------------------------------------------------------------------
(* Properties of the time budgets *)

\* C32: reaching the soft time budget only produces a warning: it ends no
\* job and interrupts no phase, so no invocation is ever left by the
\* exception of the soft limit and no job record carries it as its error.
C32_SoftLimitOnlyWarns ==
    \A w \in Workers :
        /\ inv[w].exc # "SoftTimeLimitExceeded"
        /\ jobs[w] # NoJob => jobs[w].error # "SoftTimeLimitExceeded"

----------------------------------------------------------------------------
(* Properties of failed change jobs *)

\* C33: a change job that is recorded as failed has not confirmed its
\* commit: a job whose confirming commit succeeded is never recorded as
\* failed.
C33_FailedMeansNotConfirmed ==
    \A w \in Workers :
        (IsChange(w) /\ JobStatus(w) = "failed") => ~Returned(w, "confirm")

----------------------------------------------------------------------------
(* Properties of change jobs that share a device *)

\* No load of any job was rejected, so nothing was left staged by a job
\* that has ended.
NoLoadRejected == \A x \in Workers : ~RaisedIn(x, "load")

\* C34: when change jobs run against the same device at the same time,
\* the diff a job records, which is what its commit-confirmed activates,
\* contains only commands that job loaded itself; so a job whose own
\* commands change nothing sees an empty diff, whatever another job has
\* staged.
C34_DiffIsOwnCommands ==
    \A w \in Workers :
        (IsChange(w) /\ NoLoadRejected) => inv[w].diff \subseteq inv[w].cmds

----------------------------------------------------------------------------
(* Properties of backup_device *)

\* The ConfigBackup rows invocation w created.
RowsOf(w) == {b \in backups : b.job = w}

IsBackup(w) == inv[w].task = "backup"

\* In every state the record of a backup job is success exactly when one
\* ConfigBackup row of its making is there, and a failed backup job has
\* left no row and has not written last_backup_at.
BackupAgrees ==
    \A w \in Workers :
        (IsBackup(w) /\ jobs[w] # NoJob) =>
            /\ Cardinality(RowsOf(w)) <= 1
            /\ JobStatus(w) = "success" <=> Cardinality(RowsOf(w)) = 1
            /\ JobStatus(w) = "failed" =>
                   /\ RowsOf(w) = {}
                   /\ \A d \in Devices : devinfo[d].last_backup_at # w

\* The row, the time stamp of the device and the success of the job are
\* written by the same step.
BackupTogether ==
    \A w \in Workers :
        IsBackup(w) =>
            /\ (RowsOf(w) = {} /\ RowsOf(w)' # {}) <=>
                   (JobStatus(w) # "success" /\ JobStatus(w)' = "success")
            /\ (RowsOf(w) = {} /\ RowsOf(w)' # {}) <=>
                   (\E d \in Devices : devinfo[d].last_backup_at # w
                                        /\ devinfo'[d].last_backup_at = w)

\* C35: for backup_device the ConfigBackup row, Device.last_backup_at and
\* the success of the job become visible together: a backup job is success
\* if and only if exactly one row was created by it, and a failed backup
\* job leaves no row and last_backup_at as it was.
C35_BackupRecordedAtomically == []BackupAgrees /\ [][BackupTogether]_vars

----------------------------------------------------------------------------
(* Properties of the tasks called for a device that is not there *)

\* Invocation w begins in this step, for a device id that has no row.
StartsWithoutDevice(w) ==
    /\ inv[w].pc = "idle"
    /\ inv'[w].pc # "idle"
    /\ inv'[w].device \notin rows

\* C36: for a device id that does not exist each of the four tasks fails
\* without creating a job record and without contacting a device, the
\* oracle or the store of artifacts.
C36_MissingDeviceLeavesNothing ==
    [][\A w \in Workers :
          StartsWithoutDevice(w) =>
              /\ inv'[w].pc = "raised"
              /\ jobs'[w] = NoJob
              /\ inv'[w].calls = << >>
              /\ ~inv'[w].session
              /\ repo' = repo]_vars

----------------------------------------------------------------------------
(* Properties of the endpoints that read health jobs *)

\* The health-check jobs of device d that finished successfully.
FinishedHealthChecks(d) ==
    {j \in Workers : /\ inv[j].task = "health"
                     /\ jobs[j] # NoJob
                     /\ jobs[j].device_id = d
                     /\ jobs[j].status \in SuccessStatuses
                     /\ jobs[j].finished_at}

\* C37: once a health-check job of a device has finished successfully,
\* the upgrade-readiness endpoint and the chat endpoint select one of the
\* successfully finished health checks of that device as the health data
\* they pass on.
C37_EndpointsFindHealthJob ==
    \A d \in rows :
        FinishedHealthChecks(d) # {} =>
            /\ check_upgrade_readiness(d) # {}
            /\ check_upgrade_readiness(d) \subseteq FinishedHealthChecks(d)
            /\ chat_with_ai(d) # {}
            /\ chat_with_ai(d) \subseteq FinishedHealthChecks(d)

----------------------------------------------------------------------------
(* Properties of PyEZService.commit_check *)

IsCheck(w) == inv[w].task = "commit_check"

\* C38: PyEZService.commit_check never activates configuration: it issues
\* no commit, on its success path and on its failure path a rollback of the
\* candidate has been issued before it returns (True, diff) or
\* (False, error), and it raises only when the connection cannot be opened.
C38_CheckNeverActivates ==
    \A w \in Workers :
        IsCheck(w) =>
            /\ ~Called(w, "commit")
            /\ junos[inv[w].device].active = InitialConfig
            /\ inv[w].pc \in {"ck_close", "done"} => Called(w, "rollback")
            /\ inv[w].pc = "raised" => inv[w].calls = <<Ex("open")>>

====
